---- MODULE Spec2Model ----
(***************************************************************************)
(* State-machine model of st::EX_Stepper (EX_Stepper.cpp): the constructor,*)
(* init(), update(), beSmart(), calcMotorPosition() and refresh(), with    *)
(* the Arduino String / map() primitives and the AccelStepper primitive    *)
(* the controller calls.                                                   *)
(***************************************************************************)
EXTENDS Integers, Sequences, FiniteSets, TLC

\* ------------------------------------------------------------------ bounds
\* largest servoDisableTime (a non-negative long) passed to the constructor
MaxDelay == 1

\* modulus of the unsigned long clock: twice the range of a non-negative long
ClockMod == 2 * (MaxDelay + 1)

\* ------------------------------------------------------- integer helpers
Abs(x) == IF x < 0 THEN -x ELSE x

\* C integer division: truncation toward zero (b # 0)
CDiv(a, b) ==
  LET q == Abs(a) \div Abs(b)
  IN  IF (a < 0) # (b < 0) THEN -q ELSE q

\* ------------------------------------------------ Arduino String model
\* A String is a sequence of one-character strings; indices are 0-based.
Digits == <<"0", "1", "2", "3", "4", "5", "6", "7", "8", "9">>

IsDigit(c) == \E i \in 1..10 : Digits[i] = c

DigitVal(c) == (CHOOSE i \in 1..10 : Digits[i] = c) - 1

IsSpace(c) == c = " "

\* String::indexOf(char): first 0-based index of ch, or -1
IndexOf(s, ch) ==
  IF \E i \in 1..Len(s) : s[i] = ch
    THEN (CHOOSE i \in 1..Len(s) : s[i] = ch /\ \A j \in 1..(i-1) : s[j] # ch) - 1
    ELSE -1

\* conversion of an int argument to the unsigned int parameter
ToUnsigned(i) == IF i < 0 THEN i + 65536 ELSE i

\* String::substring(unsigned left, unsigned right)
Substring(s, left, right) ==
  LET l0 == ToUnsigned(left)
      r0 == ToUnsigned(right)
      l  == IF l0 > r0 THEN r0 ELSE l0
      r1 == IF l0 > r0 THEN l0 ELSE r0
      r  == IF r1 > Len(s) THEN Len(s) ELSE r1
  IN  IF l >= Len(s) THEN <<>> ELSE SubSeq(s, l + 1, r)

\* String::substring(unsigned left): to the end of the string
SubstringFrom(s, left) == Substring(s, left, Len(s))

\* String::trim(): strip leading and trailing whitespace
RECURSIVE TrimLeft(_)
TrimLeft(s) ==
  IF s # <<>> /\ IsSpace(Head(s)) THEN TrimLeft(Tail(s)) ELSE s

RECURSIVE TrimRight(_)
TrimRight(s) ==
  IF s # <<>> /\ IsSpace(s[Len(s)]) THEN TrimRight(SubSeq(s, 1, Len(s) - 1)) ELSE s

Trim(s) == TrimRight(TrimLeft(s))

\* the digits atol() consumes: value of the longest leading run of digits
RECURSIVE DigitRun(_, _)
DigitRun(s, acc) ==
  IF s # <<>> /\ IsDigit(Head(s))
    THEN DigitRun(Tail(s), 10 * acc + DigitVal(Head(s)))
    ELSE acc

\* String::toInt(): atol() of the buffer, 0 when nothing converts
ToInt(s) ==
  LET t == TrimLeft(s)
  IN  IF t = <<>> THEN 0
      ELSE IF Head(t) = "-" THEN -DigitRun(Tail(t), 0)
      ELSE IF Head(t) = "+" THEN DigitRun(Tail(t), 0)
      ELSE DigitRun(t, 0)

\* Arduino map(x, in_min, in_max, out_min, out_max)
ArduinoMap(x, in_min, in_max, out_min, out_max) ==
  CDiv((x - in_min) * (out_max - out_min), in_max - in_min) + out_min

\* ------------------------------------------------------- command parser
\* EX_Stepper::beSmart, the four substrings (empty when the line has a '!')
FieldStrings(str) ==
  IF IndexOf(str, "!") = -1
    THEN [level |-> Substring(str, IndexOf(str, " ") + 1, IndexOf(str, ":")),
          rate  |-> Substring(str, IndexOf(str, ":") + 1, IndexOf(str, "+")),
          max   |-> Substring(str, IndexOf(str, "+") + 1, IndexOf(str, "-")),
          min   |-> SubstringFrom(str, IndexOf(str, "-") + 1)]
    ELSE [level |-> <<>>, rate |-> <<>>, max |-> <<>>, min |-> <<>>]

\* EX_Stepper::beSmart, trim() and toInt() of the four substrings
ParseFields(str) ==
  LET f == FieldStrings(str)
  IN  [level |-> ToInt(Trim(f.level)),
       rate  |-> ToInt(Trim(f.rate)),
       max   |-> ToInt(Trim(f.max)),
       min   |-> ToInt(Trim(f.min))]

\* mutant: the two output bounds passed to map() in the wrong order
MapLevelSwapped(level, minAngle, maxAngle) ==
  ArduinoMap(level, 0, 100, maxAngle, minAngle)

\* EX_Stepper::beSmart, the level-to-angle mapping
MapLevel(level, minAngle, maxAngle) ==
  ArduinoMap(level, 0, 100, minAngle, maxAngle)

\* mutant: the lower clamp tests the two bounds with "or" instead of "and"
ClampTargetOr(target, minAngle, maxAngle) ==
  LET t1 == IF target < minAngle \/ target < maxAngle
              THEN (IF minAngle < maxAngle THEN minAngle ELSE maxAngle)
              ELSE target
  IN  IF t1 > maxAngle /\ t1 > minAngle
        THEN (IF maxAngle > minAngle THEN maxAngle ELSE minAngle)
        ELSE t1

\* mutant: the clamp against the lower bound is missing
ClampTargetUpperOnly(target, minAngle, maxAngle) ==
  IF target > maxAngle /\ target > minAngle
    THEN (IF maxAngle > minAngle THEN maxAngle ELSE minAngle)
    ELSE target

\* EX_Stepper::calcMotorPosition, the range clamp of the target
ClampTarget(target, minAngle, maxAngle) ==
  LET t1 == IF target < minAngle /\ target < maxAngle
              THEN (IF minAngle < maxAngle THEN minAngle ELSE maxAngle)
              ELSE target
  IN  IF t1 > maxAngle /\ t1 > minAngle
        THEN (IF maxAngle > minAngle THEN maxAngle ELSE minAngle)
        ELSE t1

\* EX_Stepper::update, the stepper reports the target reached
MoveComplete(targetPos, currentPos) == targetPos = currentPos

\* mutant: the countdown is armed whatever the policy
ArmDisableTimerAlways(disableAfterMove) == TRUE

\* EX_Stepper::update, the countdown is armed on completion under the policy
ArmDisableTimer(disableAfterMove) == disableAfterMove

\* mutant: the comparison of the elapsed time is reversed
TimerExpiredReversed(now, prev, delay) == ((now - prev) % ClockMod) < delay

\* EX_Stepper::update, the unsigned comparison of the elapsed time
TimerExpired(now, prev, delay) == ((now - prev) % ClockMod) > delay

\* AccelStepper::setMaxSpeed: a negative speed is negated
SetMaxSpeed(rate) == Abs(rate)

\* AccelStepper::run: at most one step toward the target, when a step is due
\* and the speed limit is not zero
StepperRun(currentPos, targetPos, speed, due) ==
  IF due /\ speed # 0 /\ currentPos # targetPos
    THEN (IF currentPos < targetPos THEN currentPos + 1 ELSE currentPos - 1)
    ELSE currentPos

\* ------------------------------------------------------------ the inputs
\* constructor arguments of the sketch
StartingAngles == {1, 9}

AngleBounds == {<<0, 2>>, <<2, 0>>, <<1, 1>>}

StepRates == {5}

\* values an uninitialised member may hold
UninitValues == {0, 77}

\* values the never-assigned m_nPrevMillis may hold
UninitMillis == {0, ClockMod - 1}

\* outcomes of the integer division by zero: a trap, or some quotient
DivZeroOutcomes ==
  {[trap |-> TRUE, q |-> 0], [trap |-> FALSE, q |-> 0], [trap |-> FALSE, q |-> -1]}

\* command lines "<level>:<rate>+<max>-<min>"
Line(prefix, level, rate, max, min) ==
  prefix \o level \o <<":">> \o rate \o <<"+">> \o max \o <<"-">> \o min

LevelStrings == {<<"0">>, <<"3", "3">>, <<"1", "0", "0">>, <<"1", "5", "0">>}

RangeStrings == {<<<<"2">>, <<"0">>>>, <<<<"0">>, <<"2">>>>}

PlainLines ==
  {Line(<<>>, l, <<"5">>, b[1], b[2]) : l \in LevelStrings, b \in RangeStrings}

OtherLines ==
  { Line(<<"s", " ">>, <<"5", "0">>, <<"5">>, <<"2">>, <<"0">>),
    Line(<<>>, <<"5", "0">>, <<"5">>, <<"1">>, <<"1">>),
    Line(<<>>, <<"5", "0">>, <<"0">>, <<"2">>, <<"0">>),
    Line(<<>>, <<"a", "b">>, <<"x">>, <<"2">>, <<"0">>),
    Line(<<>>, <<"5", "0">>, <<"5">>, <<"1">>, <<"-", "1">>),
    Line(<<>>, <<"5", "0">>, <<"5">>, <<"-", "1">>, <<"0">>),
    Line(<<>>, <<"-", "1">>, <<"5">>, <<"2">>, <<"0">>),
    Line(<<>>, <<>>, <<>>, <<>>, <<>>) }

BangLines ==
  { <<"!">>,
    Line(<<"!">>, <<"5", "0">>, <<"5">>, <<"2">>, <<"0">>),
    Line(<<>>, <<"5", "0">>, <<"5">>, <<"2">>, <<"0", "!">>) }

Lines == PlainLines \cup OtherLines \cup BangLines

\* the fields beSmart extracts from each line
Parsed == [str \in Lines |-> ParseFields(str)]

HasBang == [str \in Lines |-> IndexOf(str, "!") # -1]

\* ------------------------------------------------------------- the state
VARIABLES
  pc,                  \* "constructed", "run" or "fault"
  m_nTargetAngle, m_nMinLevelAngle, m_nMaxLevelAngle,
  m_nCurrentRate, m_nCurrentLevel, m_nOldAngle, m_nCurrentAngle, m_nTimeStep,
  m_bMoveActive, m_bDisableTmrActive,
  m_bDisableAfterMove, m_nDisableTime, m_nPrevMillis,
  targetPosition, currentPosition, maxSpeed, outputsEnabled,   \* m_Stepper
  millis,              \* the millisecond clock
  lastStep,            \* what the last step did
  sinceDone,           \* milliseconds since the last completed move (saturating)
  disablesSinceDone    \* disableOutputs calls since the last completed move

config == <<m_bDisableAfterMove, m_nDisableTime, m_nPrevMillis>>

members == <<m_nTargetAngle, m_nMinLevelAngle, m_nMaxLevelAngle, m_nCurrentRate,
             m_nCurrentLevel, m_nOldAngle, m_nCurrentAngle, m_nTimeStep,
             m_bMoveActive, m_bDisableTmrActive>>

stepper == <<targetPosition, currentPosition, maxSpeed, outputsEnabled>>

history == <<lastStep, sinceDone, disablesSinceDone>>

vars == <<pc, config, members, stepper, millis, history>>

\* op: the operation; line: the line handed to beSmart; bang: the line had a
\* '!'; status: the statuses handed to sendSmartString; disabled:
\* disableOutputs was invoked; completed: the move was marked complete;
\* divZero: the division had a zero divisor; preempt: beSmart found a move
\* active; afterPreempt: the first update() after such a beSmart; runs: the
\* calls of the stepper's run()
NoStep == [op |-> "none", line |-> <<>>, bang |-> FALSE, status |-> <<>>,
           disabled |-> FALSE, completed |-> FALSE, divZero |-> FALSE,
           preempt |-> FALSE, afterPreempt |-> FALSE, runs |-> 0]

\* EX_Stepper::EX_Stepper
Init ==
  /\ pc = "constructed"
  /\ m_nTargetAngle \in StartingAngles
  /\ m_bDisableAfterMove \in BOOLEAN
  /\ m_nDisableTime \in 0..MaxDelay
  /\ \E b \in AngleBounds :
       /\ m_nMinLevelAngle = b[1]
       /\ m_nMaxLevelAngle = b[2]
       /\ m_nOldAngle = CDiv(b[1] + b[2], 2)
  /\ m_nCurrentRate \in StepRates
  /\ m_bMoveActive = FALSE
  /\ m_bDisableTmrActive = FALSE
  /\ m_nCurrentLevel \in UninitValues
  /\ m_nCurrentAngle \in UninitValues
  /\ m_nTimeStep \in UninitValues
  /\ m_nPrevMillis \in UninitMillis
  /\ targetPosition = 0
  /\ currentPosition = 0
  /\ maxSpeed = 1
  /\ outputsEnabled = TRUE
  /\ millis = 0
  /\ lastStep = NoStep
  /\ sinceDone = 0
  /\ disablesSinceDone = 0

\* EX_Stepper::calcMotorPosition on the member values the caller has set
calcMotorPosition(target, minAngle, maxAngle, rate, oldAngle) ==
  /\ outputsEnabled' = TRUE
  /\ m_nTargetAngle' = ClampTarget(target, minAngle, maxAngle)
  /\ IF maxAngle - minAngle = 0
       THEN \E dz \in DivZeroOutcomes :
              IF dz.trap
                THEN /\ pc' = "fault"
                     /\ m_bMoveActive' = FALSE
                     /\ UNCHANGED <<m_nTimeStep, m_nCurrentAngle>>
                ELSE /\ pc' = "run"
                     /\ m_nTimeStep' = Abs(dz.q)
                     /\ m_nCurrentAngle' = oldAngle
                     /\ m_bMoveActive' = TRUE
       ELSE /\ pc' = "run"
            /\ m_nTimeStep' = Abs(CDiv(rate, maxAngle - minAngle))
            /\ m_nCurrentAngle' = oldAngle
            /\ m_bMoveActive' = TRUE

\* mutant: the status carries the target and the rate in the wrong order
refreshSwapped(level, target, rate) == <<level, rate, target>>

\* EX_Stepper::refresh: the status triplet handed to sendSmartString
refresh(level, target, rate) == <<level, target, rate>>

\* mutant: run() is called only while a move is active
RunCallsWhenActive(active) == IF active THEN 1 ELSE 0

\* EX_Stepper::update, the calls of m_Stepper.run(): one, outside the if block
RunCalls(active) == 1

\* mutant: refresh() is called on every update() of an active move
StatusOnActiveUpdate(active, complete, triplet) ==
  IF active THEN <<triplet>> ELSE <<>>

\* EX_Stepper::update, the statuses sent: refresh() only when the move completes
StatusOnUpdate(active, complete, triplet) ==
  IF active /\ complete THEN <<triplet>> ELSE <<>>

\* EX_Stepper::init
init ==
  /\ pc = "constructed"
  /\ maxSpeed' = SetMaxSpeed(m_nCurrentRate)
  /\ calcMotorPosition(m_nTargetAngle, m_nMinLevelAngle, m_nMaxLevelAngle,
                       m_nCurrentRate, m_nOldAngle)
  /\ lastStep' = [NoStep EXCEPT !.op = "init",
                    !.status = IF pc' = "run"
                                 THEN <<refresh(m_nCurrentLevel, m_nTargetAngle',
                                                m_nCurrentRate)>>
                                 ELSE <<>>,
                    !.divZero = (m_nMaxLevelAngle = m_nMinLevelAngle)]
  /\ UNCHANGED <<config, m_nMinLevelAngle, m_nMaxLevelAngle, m_nCurrentRate,
                 m_nCurrentLevel, m_nOldAngle, m_bDisableTmrActive,
                 targetPosition, currentPosition, millis,
                 sinceDone, disablesSinceDone>>

\* EX_Stepper::update; due: the stepper's next step is due in this call
update(due) ==
  /\ pc = "run"
  /\ LET tp       == IF m_bMoveActive THEN m_nTargetAngle ELSE targetPosition
         complete == m_bMoveActive /\ MoveComplete(tp, currentPosition)
         armed    == IF complete /\ ArmDisableTimer(m_bDisableAfterMove)
                       THEN TRUE ELSE m_bDisableTmrActive
         fire     == armed /\ TimerExpired(millis, m_nPrevMillis, m_nDisableTime)
     IN  /\ targetPosition' = tp
         /\ m_bMoveActive' = (m_bMoveActive /\ ~complete)
         /\ currentPosition' = IF RunCalls(m_bMoveActive) = 1
                                 THEN StepperRun(currentPosition, tp, maxSpeed, due)
                                 ELSE currentPosition
         /\ m_bDisableTmrActive' = (armed /\ ~fire)
         /\ outputsEnabled' = IF fire THEN FALSE ELSE outputsEnabled
         /\ sinceDone' = IF complete THEN 0 ELSE sinceDone
         /\ disablesSinceDone' =
              LET base == IF complete THEN 0 ELSE disablesSinceDone
              IN  IF fire /\ base < 2 THEN base + 1 ELSE base
         /\ lastStep' = [NoStep EXCEPT !.op = "update",
                           !.status = StatusOnUpdate(m_bMoveActive, complete,
                                        refresh(m_nCurrentLevel, m_nTargetAngle,
                                                m_nCurrentRate)),
                           !.disabled = fire, !.completed = complete,
                           !.afterPreempt = (lastStep.op = "beSmart" /\ lastStep.preempt),
                           !.runs = RunCalls(m_bMoveActive)]
         /\ UNCHANGED <<pc, config, m_nTargetAngle, m_nMinLevelAngle, m_nMaxLevelAngle,
                        m_nCurrentRate, m_nCurrentLevel, m_nOldAngle, m_nCurrentAngle,
                        m_nTimeStep, maxSpeed, millis>>

updateDue == update(TRUE)

updateIdle == update(FALSE)

\* EX_Stepper::beSmart
beSmart(str) ==
  /\ pc = "run"
  /\ LET f == Parsed[str]
     IN  /\ m_nCurrentLevel' = f.level
         /\ m_nCurrentRate' = f.rate
         /\ maxSpeed' = SetMaxSpeed(f.rate)
         /\ m_nMaxLevelAngle' = f.max
         /\ m_nMinLevelAngle' = f.min
         /\ m_nOldAngle' = m_nCurrentAngle
         /\ calcMotorPosition(MapLevel(f.level, f.min, f.max), f.min, f.max,
                              f.rate, m_nCurrentAngle)
         /\ lastStep' = [NoStep EXCEPT !.op = "beSmart",
                           !.line = str,
                           !.bang = HasBang[str],
                           !.divZero = (f.max = f.min),
                           !.preempt = m_bMoveActive]
  /\ UNCHANGED <<config, m_bDisableTmrActive, targetPosition, currentPosition,
                 millis, sinceDone, disablesSinceDone>>

command == \E str \in Lines : beSmart(str)

\* one millisecond passes between two calls
elapse ==
  /\ pc = "run"
  /\ millis' = (millis + 1) % ClockMod
  /\ sinceDone' = IF sinceDone <= m_nDisableTime THEN sinceDone + 1 ELSE sinceDone
  /\ lastStep' = [NoStep EXCEPT !.op = "elapse"]
  /\ UNCHANGED <<pc, config, members, stepper, disablesSinceDone>>

Next == init \/ updateDue \/ updateIdle \/ command \/ elapse

Spec == Init /\ [][Next]_vars

\* an update() call in which the disable countdown expires
updateExpiry == \E due \in BOOLEAN : update(due) /\ lastStep'.disabled

\* The cooperative loop calls update() on every pass and a due step keeps
\* coming up (WF updateDue); the clock advances (WF elapse); the loop makes
\* many passes per millisecond, so a pass falls into a millisecond in which the
\* countdown has expired (SF updateExpiry).  The sketch is one that uses the
\* disable-after-move policy, the only one under which a countdown exists.
LiveInit == Init /\ m_bDisableAfterMove

LiveSpec ==
  /\ LiveInit /\ [][Next]_vars
  /\ WF_vars(updateDue) /\ WF_vars(elapse) /\ SF_vars(updateExpiry)

\* ------------------------------------------------------------ properties
Min2(a, b) == IF a < b THEN a ELSE b

Max2(a, b) == IF a < b THEN b ELSE a

Converged == ~m_bMoveActive /\ currentPosition = m_nTargetAngle

\* C1: a beSmart call whose line contains '!' leaves the level, rate, angle
\* bounds, target, old angle, move flag, countdown flag, the stepper's speed
\* limit and output-enable state unchanged, and raises no fault.
C1_BangLineIsNoOp ==
  [][(lastStep'.op = "beSmart" /\ lastStep'.bang)
       => /\ UNCHANGED <<m_nCurrentLevel, m_nCurrentRate, m_nMinLevelAngle,
                         m_nMaxLevelAngle, m_nTargetAngle, m_nOldAngle,
                         m_bMoveActive, m_bDisableTmrActive, maxSpeed, outputsEnabled>>
          /\ pc' # "fault"]_vars

\* C2: after init or beSmart with minAngle = maxAngle no division by zero has
\* been executed, there is no fault, and the target is that single angle.
C2_ZeroRangeNoDivision ==
  (lastStep.op \in {"init", "beSmart"} /\ m_nMinLevelAngle = m_nMaxLevelAngle)
    => (~lastStep.divZero /\ pc = "run" /\ m_nTargetAngle = m_nMinLevelAngle)

\* C3: the move flag and the disable-countdown flag are never both set.
C3_NotMovingAndCooling == ~(m_bMoveActive /\ m_bDisableTmrActive)

\* C4: disableOutputs is never invoked by an update() that leaves the move active.
C4_NoDisableWhileMoving == ~(lastStep.disabled /\ m_bMoveActive)

\* C5: disableOutputs is invoked only when more than the disable delay has
\* elapsed since the move was marked complete.
C5_DisableAfterDelay == lastStep.disabled => sinceDone > m_nDisableTime

\* C6: with the disable policy, a completed move is followed by a power-down
\* unless a command arrives first, and disableOutputs is invoked at most once
\* per completed move.
C6_OnePowerDownPerMove ==
  /\ [](disablesSinceDone <= 1)
  /\ (lastStep.completed /\ m_bDisableAfterMove)
        ~> (lastStep.disabled \/ lastStep.op = "beSmart")

C6_Witness ==
  /\ m_bDisableAfterMove /\ lastStep.disabled /\ ~lastStep.completed
  /\ disablesSinceDone = 1 /\ ~m_bDisableTmrActive /\ ~outputsEnabled

\* C7: without the disable policy the countdown is never armed, disableOutputs
\* is never invoked and the outputs stay enabled once init has run.
C7_NoPolicyNoDisable ==
  ~m_bDisableAfterMove
    => (~m_bDisableTmrActive /\ ~lastStep.disabled /\ (pc # "constructed" => outputsEnabled))

C7_Witness ==
  ~m_bDisableAfterMove /\ lastStep.completed /\ outputsEnabled /\ ~m_bMoveActive

\* C8: once commands stop arriving after at least one beSmart, the controller
\* eventually stays at "move inactive, stepper at the target angle".
C8_Converges ==
  \/ []<>(lastStep.op = "beSmart" /\ pc = "run")
  \/ [](lastStep.op # "beSmart")
  \/ <>[]Converged

\* C9: once init has run, the target angle lies between the two angle bounds,
\* whatever their order.
C9_TargetInRange ==
  pc # "constructed"
    => /\ Min2(m_nMinLevelAngle, m_nMaxLevelAngle) <= m_nTargetAngle
       /\ m_nTargetAngle <= Max2(m_nMinLevelAngle, m_nMaxLevelAngle)

C9_Witness ==
  /\ lastStep.op = "beSmart" /\ m_nCurrentLevel > 100
  /\ m_nMinLevelAngle > m_nMaxLevelAngle /\ m_nTargetAngle = m_nMaxLevelAngle

\* C10: after beSmart with a level in 0..100 and minAngle # maxAngle the target
\* is minAngle + level * (maxAngle - minAngle) / 100 with the quotient
\* truncated toward zero; level 0 gives minAngle and level 100 gives maxAngle.
C10_LinearMapping ==
  (lastStep.op = "beSmart" /\ m_nCurrentLevel \in 0..100
     /\ m_nMinLevelAngle # m_nMaxLevelAngle)
    => LET d == m_nCurrentLevel * (m_nMaxLevelAngle - m_nMinLevelAngle)
           q == m_nTargetAngle - m_nMinLevelAngle
       IN  /\ d >= 0 => (100 * q <= d /\ d < 100 * q + 100)
           /\ d < 0 => (100 * q >= d /\ d > 100 * q - 100)
           /\ m_nCurrentLevel = 0 => m_nTargetAngle = m_nMinLevelAngle
           /\ m_nCurrentLevel = 100 => m_nTargetAngle = m_nMaxLevelAngle

C10_Witness ==
  /\ lastStep.op = "beSmart" /\ m_nCurrentLevel = 33
  /\ m_nMinLevelAngle = 2 /\ m_nMaxLevelAngle = 0 /\ m_nTargetAngle = 2


\* the commands written as "<level>:<rate>+<max>-<min>" with values of the data
\* model: prefix, level, rate, max, min
WrittenCommands ==
  {<<<<>>, l, <<"5">>, b[1], b[2]>> : l \in LevelStrings, b \in RangeStrings}
    \cup { <<<<"s", " ">>, <<"5", "0">>, <<"5">>, <<"2">>, <<"0">>>>,
           <<<<>>, <<"5", "0">>, <<"0">>, <<"2">>, <<"0">>>>,
           <<<<>>, <<"a", "b">>, <<"x">>, <<"2">>, <<"0">>>>,
           <<<<>>, <<"5", "0">>, <<"5">>, <<"1">>, <<"-", "1">>>>,
           <<<<>>, <<"5", "0">>, <<"5">>, <<"-", "1">>, <<"0">>>>,
           <<<<>>, <<>>, <<>>, <<>>, <<>>>> }

\* the value of a string of decimal digits
RECURSIVE Dec(_)
Dec(s) ==
  IF s = <<>> THEN 0
  ELSE 10 * Dec(SubSeq(s, 1, Len(s) - 1)) + DigitVal(s[Len(s)])

\* the integer a field is written as; 0 for an empty or non-numeric field
Written(s) ==
  LET body == IF s # <<>> /\ Head(s) = "-" THEN Tail(s) ELSE s
  IN  IF body # <<>> /\ \A i \in 1..Len(body) : IsDigit(body[i])
        THEN (IF Head(s) = "-" THEN -Dec(body) ELSE Dec(body))
        ELSE 0

\* C11: after beSmart on a line without '!' written as
\* "<level>:<rate>+<max>-<min>", with an optional leading token, the level,
\* rate, max and min are the four integers as written, signed values
\* included, and an empty or non-numeric field is 0.
C11_ParserYieldsFields ==
  \A w \in WrittenCommands :
    (lastStep.op = "beSmart" /\ lastStep.line = Line(w[1], w[2], w[3], w[4], w[5]))
      => /\ m_nCurrentLevel = Written(w[2])
         /\ m_nCurrentRate = Written(w[3])
         /\ m_nMaxLevelAngle = Written(w[4])
         /\ m_nMinLevelAngle = Written(w[5])

\* C12 (as claimed): whenever a status is emitted the move flag is false, and
\* update() emits one status when it completes a move and none otherwise.
C12_StatusOnlyWhenIdle ==
  /\ lastStep.status # <<>> => ~m_bMoveActive
  /\ lastStep.op = "update"
       => Len(lastStep.status) = (IF lastStep.completed THEN 1 ELSE 0)

\* C12 (amended): init emits one status when it returns, with the initial move
\* just armed (move flag true), and none when it faults; update() emits one
\* status when it completes a move, with the move flag false, and none
\* otherwise; no other step emits a status.
C12_StatusEmissions ==
  /\ lastStep.op = "init"
       => IF pc = "run"
            THEN Len(lastStep.status) = 1 /\ m_bMoveActive
            ELSE lastStep.status = <<>>
  /\ lastStep.op = "update"
       => /\ Len(lastStep.status) = (IF lastStep.completed THEN 1 ELSE 0)
          /\ lastStep.status # <<>> => ~m_bMoveActive
  /\ lastStep.op \in {"none", "beSmart", "elapse"} => lastStep.status = <<>>

C12_Witness ==
  /\ lastStep.op = "update" /\ lastStep.completed
  /\ Len(lastStep.status) = 1 /\ ~m_bMoveActive

\* targets the clamp is probed with, around and inside the angle ranges
ProbeAngles == -2..4

\* C13: with the angle bounds of any state after init (either order, or equal),
\* the clamp leaves the clamped target and every in-range target unchanged, and
\* clamping twice gives what clamping once gives.
C13_ClampIdempotent ==
  pc # "constructed"
    => /\ ClampTarget(m_nTargetAngle, m_nMinLevelAngle, m_nMaxLevelAngle) = m_nTargetAngle
       /\ \A t \in ProbeAngles :
            LET c == ClampTarget(t, m_nMinLevelAngle, m_nMaxLevelAngle)
            IN  /\ ClampTarget(c, m_nMinLevelAngle, m_nMaxLevelAngle) = c
                /\ (/\ Min2(m_nMinLevelAngle, m_nMaxLevelAngle) <= t
                    /\ t <= Max2(m_nMinLevelAngle, m_nMaxLevelAngle)) => c = t

C13_Witness ==
  /\ lastStep.op = "init" /\ pc = "run"
  /\ m_nMinLevelAngle = 2 /\ m_nMaxLevelAngle = 0 /\ m_nTargetAngle = 2

\* C14: after beSmart the old angle is the stepper's position at that moment.
C14_OldAngleIsPosition ==
  lastStep.op = "beSmart" => m_nOldAngle = currentPosition

\* C15: the first update() after a command that found a move active directs
\* the stepper to the new target; after a command the level and rate are those
\* of its line and the target is the clamped mapping of its level; update() and
\* the passing of time leave them alone; and the status update() emits is
\* (level, target, rate), so it is that of the most recent command.
C15_Preemption ==
  /\ []((lastStep.op = "update" /\ lastStep.afterPreempt)
          => targetPosition = m_nTargetAngle)
  /\ [](lastStep.op = "beSmart"
          => /\ m_nCurrentLevel = Parsed[lastStep.line].level
             /\ m_nCurrentRate = Parsed[lastStep.line].rate
             /\ m_nTargetAngle =
                  ClampTarget(MapLevel(m_nCurrentLevel, m_nMinLevelAngle, m_nMaxLevelAngle),
                              m_nMinLevelAngle, m_nMaxLevelAngle))
  /\ [][lastStep'.op \in {"update", "elapse"}
          => UNCHANGED <<m_nCurrentLevel, m_nTargetAngle, m_nCurrentRate,
                         m_nMinLevelAngle, m_nMaxLevelAngle>>]_vars
  /\ []((lastStep.op = "update" /\ lastStep.status # <<>>)
          => lastStep.status = <<<<m_nCurrentLevel, m_nTargetAngle, m_nCurrentRate>>>>)

C15_Witness ==
  /\ lastStep.op = "update" /\ lastStep.afterPreempt /\ m_bMoveActive
  /\ targetPosition = m_nTargetAngle /\ currentPosition # targetPosition

\* C16: an update() that finds the countdown armed powers down exactly when
\* more than the disable delay has elapsed since the move was marked complete.
C16_FiresAtFirstExpiry ==
  (lastStep.op = "update" /\ (m_bDisableTmrActive \/ lastStep.disabled))
    => (lastStep.disabled <=> sinceDone > m_nDisableTime)

\* C17: once init has run, a false move flag means the stepper's target and
\* position both equal the target angle.
C17_IdleMeansAtTarget ==
  (pc # "constructed" /\ ~m_bMoveActive)
    => (targetPosition = m_nTargetAngle /\ currentPosition = m_nTargetAngle)

\* C18: update() leaves the angle bounds, rate, level, target angle and old
\* angle unchanged, and calls the stepper's run() exactly once, move active or not.
C18_UpdateFrame ==
  /\ [][lastStep'.op = "update"
          => UNCHANGED <<m_nMinLevelAngle, m_nMaxLevelAngle, m_nCurrentRate,
                         m_nCurrentLevel, m_nTargetAngle, m_nOldAngle>>]_vars
  /\ [](lastStep.op = "update" => lastStep.runs = 1)

C18_Witness ==
  /\ lastStep.op = "update" /\ lastStep.runs = 1
  /\ ~m_bMoveActive /\ ~lastStep.completed /\ m_bDisableTmrActive

====
